---- MODULE Spec2Model ----
(***************************************************************************)
(* Model of the Prusti place/operand/operator/cast encoder                 *)
(* (prusti-viper/src/encoder/mir_encoder.rs) and of the expression         *)
(* purifier (prusti-viper/src/encoder/snapshot/purifier.rs).               *)
(*                                                                         *)
(* The encoder is a library of synchronous, recursive functions.  The      *)
(* state machine is an encoding session: each action is one call of a      *)
(* public operation with inputs drawn from bounded sets; the state holds   *)
(* the global configuration switch, the operation called last, its         *)
(* arguments, what it returned (a value, an error or an abort) and the     *)
(* encoder functions it called on the way.  get_root_span, the one         *)
(* operation with a loop, runs one step per action: `res` is its local     *)
(* variable and `iterations` counts the runs of the body of its loop.      *)
(*                                                                         *)
(* Values are tagged tuples: the first component names the constructor.    *)
(* A Rust panic is the value <<"Panic", kind>>, a Result is <<"Ok", v>> or *)
(* <<"Err", e>>.                                                           *)
(***************************************************************************)
EXTENDS Integers, Sequences, FiniteSets, TLC

VARIABLES check_binary_operations, call, arg, pc, ret, callees, res, iterations

vars == <<check_binary_operations, call, arg, pc, ret, callees, res, iterations>>

(***************************************************************************)
(* Bounds of the model.                                                    *)
(***************************************************************************)
\* longest projection chain of an enumerated place
MaxProj == 2
\* deepest nesting of an enumerated expression handed to the purifier
MaxDepth == 2
\* the longest macro backtrace of a panic call-site
MaxBacktrace == 4
\* the deepest macro expansion a span comes from
MaxExpnDepth == 2
\* the iterations of the loop of get_root_span that are followed
MaxIterations == 3

(***************************************************************************)
(* Results and aborts.                                                     *)
(***************************************************************************)
Ok(v) == <<"Ok", v>>
Err(e) == <<"Err", e>>
Panic(kind) == <<"Panic", kind>>
IsPanic(v) == v[1] = "Panic"
IsOk(v) == v[1] = "Ok"
IsErr(v) == v[1] = "Err"

(***************************************************************************)
(* Source types (rustc ty::Ty).                                            *)
(***************************************************************************)
IntTys == {"I8", "I16", "I32", "I64", "I128", "Isize"}
UintTys == {"U8", "U16", "U32", "U64", "U128", "Usize"}

TyBool == <<"Bool">>
TyChar == <<"Char">>
TyInt(k) == <<"Int", k>>
TyUint(k) == <<"Uint", k>>
TyFloat == <<"Float", "F32">>
TyRawPtr(t) == <<"RawPtr", t>>
TyRef(t) == <<"Ref", t>>
TyTuple(ts) == <<"Tuple", ts>>
TyClosure(ts) == <<"Closure", ts>>
TyAdt(name, substs) == <<"Adt", name, substs>>
TyBox(t) == TyAdt("Box", <<t>>)
TySlice(t) == <<"Slice", t>>

Kind(ty) == ty[1]

\* width in bits of the pointer-sized integers of the build
PointerWidth == 64

Width(k) ==
    CASE k \in {"I8", "U8"} -> 8
      [] k \in {"I16", "U16"} -> 16
      [] k \in {"I32", "U32"} -> 32
      [] k \in {"I64", "U64"} -> 64
      [] k \in {"I128", "U128"} -> 128
      [] k \in {"Isize", "Usize"} -> PointerWidth

(***************************************************************************)
(* Integer literals.  The bounds of the wide types exceed the integers of  *)
(* the model checker, so a literal is <<"Int", s, b, o>>, standing for     *)
(* s * 2^b + o with s in {-1, 0, 1}.  A number of magnitude at most 2^15   *)
(* has the one form <<"Int", 0, 0, n>>; every other form has b > 15 and o  *)
(* small, so the pair (s * b, o) orders the numbers.                       *)
(***************************************************************************)

Pow2(n) == IF n = 0 THEN 1 ELSE LET RECURSIVE P(_)
                                    P(i) == IF i = 0 THEN 1 ELSE 2 * P(i - 1)
                                IN P(n)

Num(s, b, o) ==
    IF s = 0 THEN <<"Int", 0, 0, o>>
    ELSE IF b <= 15 THEN <<"Int", 0, 0, s * Pow2(b) + o>>
    ELSE <<"Int", s, b, o>>

Small(n) == Num(0, 0, n)
IsSmall(x) == x[2] = 0

NumNeg(x) == Num(-x[2], x[3], -x[4])

\* x + y; defined when at most one is wide or both are of the same width
NumAddDefined(x, y) == IsSmall(x) \/ IsSmall(y) \/ x[3] = y[3]

NumAdd(x, y) ==
    IF IsSmall(x) THEN Num(y[2], y[3], y[4] + x[4])
    ELSE IF IsSmall(y) THEN Num(x[2], x[3], x[4] + y[4])
    ELSE IF x[2] = y[2] THEN Num(x[2], x[3] + 1, x[4] + y[4])
    ELSE Num(0, 0, x[4] + y[4])

Unit(x) == IsSmall(x) /\ x[4] \in {-1, 0, 1}
\* x * y; defined for two bytes and for a factor among -1, 0, 1
NumMulDefined(x, y) ==
    \/ Unit(x) \/ Unit(y)
    \/ IsSmall(x) /\ IsSmall(y) /\ x[4] \in -255..255 /\ y[4] \in -255..255

NumScale(u, y) == IF u = 0 THEN Small(0) ELSE IF u = 1 THEN y ELSE NumNeg(y)

NumMul(x, y) ==
    IF Unit(x) THEN NumScale(x[4], y)
    ELSE IF Unit(y) THEN NumScale(y[4], x)
    ELSE Small(x[4] * y[4])

NumLt(x, y) ==
    \/ x[2] * x[3] < y[2] * y[3]
    \/ x[2] * x[3] = y[2] * y[3] /\ x[4] < y[4]

\* std::<ty>::MIN and std::<ty>::MAX
StdMin(ty) ==
    IF Kind(ty) = "Uint" THEN Small(0) ELSE Num(-1, Width(ty[2]) - 1, 0)

StdMax(ty) ==
    IF Kind(ty) = "Uint" THEN Num(1, Width(ty[2]), -1)
    ELSE Num(1, Width(ty[2]) - 1, -1)

(***************************************************************************)
(* The target language (prusti_common::vir).                               *)
(***************************************************************************)
DefaultPos == 0

VInt == <<"Int">>
VBool == <<"Bool">>
TypedRef(name) == <<"TypedRef", name>>
Domain(name) == <<"Domain", name>>

\* vir::Field and vir::LocalVar: a name and a type
VField(name, typ) == <<name, typ>>
LocalVar(name, typ) == <<name, typ>>

Local(v, p) == <<"Local", v, p>>
Variant(base, f, p) == <<"Variant", base, f, p>>
Field(base, f, p) == <<"Field", base, f, p>>
AddrOf(base, typ, p) == <<"AddrOf", base, typ, p>>
Const(c, p) == <<"Const", c, p>>
BinOp(kind, l, r, p) == <<"BinOp", kind, l, r, p>>
UnaryOp(kind, e, p) == <<"UnaryOp", kind, e, p>>
FuncApp(name, args, formal_args, return_type, p) ==
    <<"FuncApp", name, args, formal_args, return_type, p>>
DomainFuncApp(df, args, p) == <<"DomainFuncApp", df, args, p>>
PredicateAccessPredicate(name, a, perm, p) ==
    <<"PredicateAccessPredicate", name, a, perm, p>>
FieldAccessPredicate(rcv, perm, p) == <<"FieldAccessPredicate", rcv, perm, p>>
Unfolding(name, args, e, perm, variant, p) ==
    <<"Unfolding", name, args, e, perm, variant, p>>

\* From<bool> and From<integer> for vir::Expr
BoolConst(b) == Const(<<"Bool", b>>, DefaultPos)
IntConst(n) == Const(n, DefaultPos)

\* the constructors vir::Expr::or, lt_cmp, gt_cmp, add, ...
ExprBin(kind, l, r) == BinOp(kind, l, r, DefaultPos)

(***************************************************************************)
(* OperatorEncoder.                                                        *)
(***************************************************************************)
BinOps == {"Add", "Sub", "Mul", "Div", "Rem", "BitXor", "BitAnd", "BitOr",
           "Shl", "Shr", "Eq", "Lt", "Le", "Ne", "Ge", "Gt", "Offset"}

\* mir::BinOp::is_checkable
is_checkable(op) == op \in {"Add", "Sub", "Mul", "Shl", "Shr"}

encode_bin_op_expr(op, left, right, ty) ==
    LET is_bool == ty = TyBool IN
    CASE op = "Eq" -> ExprBin("EqCmp", left, right)
      [] op = "Ne" -> ExprBin("NeCmp", left, right)
      [] op = "Gt" -> ExprBin("GtCmp", left, right)
      [] op = "Ge" -> ExprBin("GeCmp", left, right)
      [] op = "Lt" -> ExprBin("LtCmp", left, right)
      [] op = "Le" -> ExprBin("LeCmp", left, right)
      [] op = "Add" -> ExprBin("Add", left, right)
      [] op = "Sub" -> ExprBin("Sub", left, right)
      [] op = "Rem" -> ExprBin("Mod", left, right)
      [] op = "Div" -> ExprBin("Div", left, right)
      [] op = "Mul" -> ExprBin("Mul", left, right)
      [] op = "BitAnd" /\ is_bool -> ExprBin("And", left, right)
      [] op = "BitOr" /\ is_bool -> ExprBin("Or", left, right)
      [] op = "BitXor" /\ is_bool -> ExprBin("Xor", left, right)
      [] OTHER -> Panic("unimplemented")

\* the arm of one integer type: (result < lo) || (result > hi)
BoundsCheck(result, lo, hi) ==
    ExprBin("Or", ExprBin("LtCmp", result, IntConst(lo)),
                  ExprBin("GtCmp", result, IntConst(hi)))

encode_bin_op_check_arm(result, ty) ==
    CASE ty = TyUint("U8") -> BoundsCheck(result, StdMin(ty), StdMax(ty))
      [] ty = TyUint("U16") -> BoundsCheck(result, StdMin(ty), StdMax(ty))
      [] ty = TyUint("U32") -> BoundsCheck(result, StdMin(ty), StdMax(ty))
      [] ty = TyUint("U64") -> BoundsCheck(result, StdMin(ty), StdMax(ty))
      [] ty = TyUint("U128") -> BoundsCheck(result, StdMin(ty), StdMax(ty))
      [] ty = TyUint("Usize") -> BoundsCheck(result, StdMin(ty), StdMax(ty))
      [] ty = TyInt("I8") -> BoundsCheck(result, StdMin(ty), StdMax(ty))
      [] ty = TyInt("I16") -> BoundsCheck(result, StdMin(ty), StdMin(ty))
      [] ty = TyInt("I32") -> BoundsCheck(result, StdMin(ty), StdMax(ty))
      [] ty = TyInt("I64") -> BoundsCheck(result, StdMin(ty), StdMax(ty))
      [] ty = TyInt("I128") -> BoundsCheck(result, StdMin(ty), StdMax(ty))
      [] ty = TyInt("Isize") -> BoundsCheck(result, StdMin(ty), StdMax(ty))
      [] OTHER -> BoolConst(FALSE)

\* `enabled` is config::check_binary_operations()
encode_bin_op_check(op, left, right, ty, enabled) ==
    IF ~is_checkable(op) \/ ~enabled THEN BoolConst(FALSE)
    ELSE LET result == encode_bin_op_expr(op, left, right, ty) IN
         IF IsPanic(result) THEN result
         ELSE CASE op \in {"Add", "Mul", "Sub"} ->
                       encode_bin_op_check_arm(result, ty)
                [] op \in {"Shl", "Shr"} -> BoolConst(FALSE)
                [] OTHER -> Panic("unreachable")

(***************************************************************************)
(* Meaning of the arithmetic and comparison expressions over literals      *)
(* (the verifier's unbounded integers).                                    *)
(***************************************************************************)
RECURSIVE EvalDefined(_)
EvalDefined(e) ==
    CASE e[1] = "Const" -> TRUE
      [] e[1] = "BinOp" ->
            /\ EvalDefined(e[3]) /\ EvalDefined(e[4])
            /\ e[2] \in {"Add", "Sub", "Mul", "LtCmp", "GtCmp", "Or"}
            /\ e[2] \in {"Add", "Sub", "Mul"} =>
                  /\ e[3][1] = "Const" /\ e[4][1] = "Const"
                  /\ e[2] = "Add" => NumAddDefined(e[3][2], e[4][2])
                  /\ e[2] = "Sub" => NumAddDefined(e[3][2], NumNeg(e[4][2]))
                  /\ e[2] = "Mul" => NumMulDefined(e[3][2], e[4][2])
      [] OTHER -> FALSE

RECURSIVE Eval(_)
Eval(e) ==
    CASE e[1] = "Const" -> e[2]
      [] e[1] = "BinOp" /\ e[2] = "Add" -> NumAdd(Eval(e[3]), Eval(e[4]))
      [] e[1] = "BinOp" /\ e[2] = "Sub" -> NumAdd(Eval(e[3]), NumNeg(Eval(e[4])))
      [] e[1] = "BinOp" /\ e[2] = "Mul" -> NumMul(Eval(e[3]), Eval(e[4]))
      [] e[1] = "BinOp" /\ e[2] = "LtCmp" ->
            <<"Bool", NumLt(Eval(e[3]), Eval(e[4]))>>
      [] e[1] = "BinOp" /\ e[2] = "GtCmp" ->
            <<"Bool", NumLt(Eval(e[4]), Eval(e[3]))>>
      [] e[1] = "BinOp" /\ e[2] = "Or" ->
            <<"Bool", Eval(e[3])[2] \/ Eval(e[4])[2]>>

(***************************************************************************)
(* The program under encoding: its algebraic data types and the locals of  *)
(* the procedure body (mir.local_decls).                                   *)
(***************************************************************************)
TyI32 == TyInt("I32")
TyS == TyAdt("S", <<>>)
TyE == TyAdt("E", <<>>)
TyG == TyAdt("G", <<>>)

FieldDef(ident, ty) == [ident |-> ident, ty |-> ty]
VariantDef(ident, fields) == [ident |-> ident, fields |-> fields]

\* adt_def.variants: struct S { x: i32, r: &i32 }, enum E { A(i32), B(i32, Box<i32>) },
\* struct G<T> { g: i32 }
AdtVariants(name) ==
    CASE name = "S" -> <<VariantDef("S", <<FieldDef("x", TyI32),
                                           FieldDef("r", TyRef(TyI32))>>)>>
      [] name = "E" -> <<VariantDef("A", <<FieldDef("0", TyI32)>>),
                         VariantDef("B", <<FieldDef("0", TyI32),
                                           FieldDef("1", TyBox(TyI32))>>)>>
      [] name = "G" -> <<VariantDef("G", <<FieldDef("g", TyI32)>>)>>
      [] OTHER -> <<>>

is_box(ty) == Kind(ty) = "Adt" /\ ty[2] = "Box"
boxed_ty(ty) == ty[3][1]

LocalDecls ==
    << TyI32, TyRef(TyI32), TyS, TyE, TyTuple(<<TyI32, TyRef(TyS)>>),
       TyBox(TyS), TyRawPtr(TyE), TyClosure(<<TyI32, TyRef(TyI32)>>),
       TyRef(TyRef(TyE)), TySlice(TyI32), TyG, TyRef(TyG), TyUint("U8"),
       TyChar >>

Locals == 0..(Len(LocalDecls) - 1)

(***************************************************************************)
(* TypeCatalog: the encoder's type predicates and fields.                  *)
(***************************************************************************)
IntName(k) ==
    CASE k = "I8" -> "i8" [] k = "I16" -> "i16" [] k = "I32" -> "i32"
      [] k = "I64" -> "i64" [] k = "I128" -> "i128" [] k = "Isize" -> "isize"
      [] k = "U8" -> "u8" [] k = "U16" -> "u16" [] k = "U32" -> "u32"
      [] k = "U64" -> "u64" [] k = "U128" -> "u128" [] k = "Usize" -> "usize"

RECURSIVE TypeName(_)
RECURSIVE TypeNames(_)
TypeNames(ts) ==
    IF ts = <<>> THEN "" ELSE "$" \o TypeName(Head(ts)) \o TypeNames(Tail(ts))

TypeName(ty) ==
    CASE Kind(ty) = "Bool" -> "bool"
      [] Kind(ty) = "Char" -> "char"
      [] Kind(ty) \in {"Int", "Uint"} -> IntName(ty[2])
      [] Kind(ty) = "Float" -> "f32"
      [] Kind(ty) = "RawPtr" -> "raw_ref$" \o TypeName(ty[2])
      [] Kind(ty) = "Ref" -> "ref$" \o TypeName(ty[2])
      [] Kind(ty) = "Slice" -> "slice$" \o TypeName(ty[2])
      [] Kind(ty) = "Tuple" -> "tuple" \o ToString(Len(ty[2])) \o TypeNames(ty[2])
      [] Kind(ty) = "Closure" -> "closure" \o TypeNames(ty[2])
      [] Kind(ty) = "Adt" -> "m_" \o ty[2] \o TypeNames(ty[3])

\* types with a registered predicate: every type but the instantiations of
\* the generic G
RECURSIVE Registered(_)
Registered(ty) ==
    CASE Kind(ty) \in {"RawPtr", "Ref", "Slice"} -> Registered(ty[2])
      [] Kind(ty) = "Adt" -> ty[2] # "G"
      [] OTHER -> TRUE

encode_type_predicate_use(ty) ==
    IF Registered(ty) THEN Ok(TypeName(ty)) ELSE Err(<<"unsupported type">>)

\* WithSpan::with_span: attaches the position to an error
with_span(result, span) == IF IsErr(result) THEN Err(<<result[2][1], span>>) ELSE result

encode_type(ty) == TypedRef(TypeName(ty))

encode_raw_ref_field(field_name, ty) == VField(field_name, encode_type(ty))
encode_struct_field(field_name, ty) == encode_raw_ref_field("f$" \o field_name, ty)
encode_dereference_field(ty) == encode_raw_ref_field("val_ref", ty)

(***************************************************************************)
(* Places of the target language.                                          *)
(***************************************************************************)
RECURSIVE get_type(_)
get_type(e) ==
    CASE e[1] = "Local" -> e[2][2]
      [] e[1] \in {"Variant", "Field"} -> e[3][2]
      [] e[1] = "AddrOf" -> e[3]
      [] e[1] = "Unfolding" -> get_type(e[4])
      [] OTHER -> Panic("not a place")

type_variant(typ, name) == TypedRef(typ[2] \o name)

expr_field(base, f) == Field(base, f, DefaultPos)
expr_variant(base, index) ==
    Variant(base, VField("enum_" \o index, type_variant(get_type(base), index)),
            DefaultPos)
is_addr_of(e) == e[1] = "AddrOf"
get_parent(e) ==
    IF e[1] \in {"Variant", "Field", "AddrOf"} THEN <<"Some", e[2]>> ELSE <<"None">>

None == <<"None">>
Some(v) == <<"Some", v>>

(***************************************************************************)
(* PlaceEncoder.                                                           *)
(***************************************************************************)
PlaceOf(local, projection) == [local |-> local, projection |-> projection]
Place(e, ty, variant) == <<"Place", e, ty, variant>>

get_local_ty(local) == LocalDecls[local + 1]
get_local_span(local) == <<"Span", local>>
encode_local_var_name(local) == "_" \o ToString(local)

encode_local(local) ==
    LET var_name == encode_local_var_name(local)
        type_name == with_span(encode_type_predicate_use(get_local_ty(local)),
                               get_local_span(local))
    IN IF IsErr(type_name) THEN type_name
       ELSE Ok(LocalVar(var_name, TypedRef(type_name[2])))

can_be_dereferenced(base_ty) ==
    Kind(base_ty) \in {"RawPtr", "Ref"} \/ is_box(base_ty)

\* encode_deref without the simplification of `*&<expr>` in the box arm
encode_deref_box_no_cancel(encoded_base, base_ty) ==
    IF ~can_be_dereferenced(base_ty) THEN Panic("assert")
    ELSE CASE Kind(base_ty) \in {"RawPtr", "Ref"} ->
                LET ty == base_ty[2]
                    access ==
                        IF is_addr_of(encoded_base) THEN get_parent(encoded_base)[2]
                        ELSE expr_field(encoded_base, encode_dereference_field(ty))
                IN Place(access, ty, None)
           [] OTHER ->
                Place(expr_field(encoded_base,
                                 encode_dereference_field(boxed_ty(base_ty))),
                      boxed_ty(base_ty), None)

encode_deref(encoded_base, base_ty) ==
    IF ~can_be_dereferenced(base_ty) THEN Panic("assert")
    ELSE CASE Kind(base_ty) \in {"RawPtr", "Ref"} ->
                LET ty == base_ty[2]
                    access ==
                        IF is_addr_of(encoded_base) THEN get_parent(encoded_base)[2]
                        ELSE IF encoded_base[1] = "AddrOf" THEN encoded_base[2]
                        ELSE expr_field(encoded_base, encode_dereference_field(ty))
                IN Place(access, ty, None)
           [] is_box(base_ty) ->
                LET access ==
                        IF is_addr_of(encoded_base) THEN get_parent(encoded_base)[2]
                        ELSE expr_field(encoded_base,
                                        encode_dereference_field(boxed_ty(base_ty)))
                IN Place(access, boxed_ty(base_ty), None)
           [] OTHER -> Panic("unimplemented")

\* mir::ProjectionElem
ElemField(i) == <<"Field", i>>
ElemDeref == <<"Deref">>
ElemDowncast(v) == <<"Downcast", v>>
ElemIndex == <<"Index">>

\* the Field step on a base of a tuple type
encode_field_tuple(field, encoded_base, base_ty) ==
    LET elems == base_ty[2]
        field_name == "tuple_" \o ToString(field)
    IN IF field + 1 > Len(elems) THEN Panic("index")
       ELSE LET field_ty == elems[field + 1]
                encoded_field == encode_raw_ref_field(field_name, field_ty)
            IN Place(expr_field(encoded_base, encoded_field), field_ty, None)

\* encode_field_adt that goes through the variant accessor also for a type
\* of one variant
encode_field_adt_always_variant(field, encoded_base, base_ty, opt_variant_index) ==
    LET variants == AdtVariants(base_ty[2])
        num_variants == Len(variants)
    IN IF opt_variant_index = None /\ num_variants # 1 THEN Panic("assert")
       ELSE LET variant_index ==
                    IF opt_variant_index = None THEN 0 ELSE opt_variant_index[2]
            IN IF variant_index + 1 > num_variants THEN Panic("index")
               ELSE LET variant_def == variants[variant_index + 1]
                        encoded_variant == expr_variant(encoded_base, variant_def.ident)
                    IN IF field + 1 > Len(variant_def.fields) THEN Panic("index")
                       ELSE LET f == variant_def.fields[field + 1]
                                encoded_field == encode_struct_field(f.ident, f.ty)
                            IN Place(expr_field(encoded_variant, encoded_field),
                                     f.ty, None)

\* the Field step on a base of a struct or enum type that is not a box
encode_field_adt(field, encoded_base, base_ty, opt_variant_index) ==
    LET variants == AdtVariants(base_ty[2])
        num_variants == Len(variants)
    IN IF opt_variant_index = None /\ num_variants # 1 THEN Panic("assert")
       ELSE LET variant_index ==
                    IF opt_variant_index = None THEN 0 ELSE opt_variant_index[2]
            IN IF variant_index + 1 > num_variants THEN Panic("index")
               ELSE LET variant_def == variants[variant_index + 1]
                        encoded_variant ==
                            IF num_variants # 1
                            THEN expr_variant(encoded_base, variant_def.ident)
                            ELSE encoded_base
                    IN IF field + 1 > Len(variant_def.fields) THEN Panic("index")
                       ELSE LET f == variant_def.fields[field + 1]
                                field_ty == f.ty
                                encoded_field == encode_struct_field(f.ident, field_ty)
                            IN Place(expr_field(encoded_variant, encoded_field),
                                     field_ty, None)

\* the Field step on a base of a closure type
encode_field_closure(field, encoded_base, base_ty) ==
    LET upvar_tys == base_ty[2] IN
    IF field + 1 > Len(upvar_tys) THEN Panic("unwrap")
    ELSE LET field_ty == upvar_tys[field + 1]
             field_name == "closure_" \o ToString(field)
             encoded_field == encode_raw_ref_field(field_name, field_ty)
             encoded_projection == expr_field(encoded_base, encoded_field)
             encoded_field_type == encode_type(field_ty)
         IN IF get_type(encoded_projection) # encoded_field_type THEN Panic("assert")
            ELSE Place(encoded_projection, field_ty, None)

\* encode_projection_elem whose Deref step passes on the variant of its base
encode_projection_elem_variant_kept(elem, encoded_base, base_ty, opt_variant_index) ==
    CASE elem[1] = "Field" ->
            (CASE Kind(base_ty) \in {"Bool", "Int", "Uint", "RawPtr", "Ref"} ->
                      Panic("panic")
               [] Kind(base_ty) = "Tuple" ->
                      encode_field_tuple(elem[2], encoded_base, base_ty)
               [] Kind(base_ty) = "Adt" /\ ~is_box(base_ty) ->
                      encode_field_adt(elem[2], encoded_base, base_ty,
                                       opt_variant_index)
               [] Kind(base_ty) = "Closure" ->
                      encode_field_closure(elem[2], encoded_base, base_ty)
               [] OTHER -> Panic("unimplemented"))
      [] elem[1] = "Deref" ->
            LET d == encode_deref(encoded_base, base_ty) IN
            IF IsPanic(d) THEN d ELSE Place(d[2], d[3], opt_variant_index)
      [] elem[1] = "Downcast" -> Place(encoded_base, base_ty, Some(elem[2]))
      [] OTHER -> Panic("unimplemented")

\* the rule of one projection step, applied to the encoded base
encode_projection_elem(elem, encoded_base, base_ty, opt_variant_index) ==
    CASE elem[1] = "Field" ->
            (CASE Kind(base_ty) \in {"Bool", "Int", "Uint", "RawPtr", "Ref"} ->
                      Panic("panic")
               [] Kind(base_ty) = "Tuple" ->
                      encode_field_tuple(elem[2], encoded_base, base_ty)
               [] Kind(base_ty) = "Adt" /\ ~is_box(base_ty) ->
                      encode_field_adt(elem[2], encoded_base, base_ty,
                                       opt_variant_index)
               [] Kind(base_ty) = "Closure" ->
                      encode_field_closure(elem[2], encoded_base, base_ty)
               [] OTHER -> Panic("unimplemented"))
      [] elem[1] = "Deref" -> encode_deref(encoded_base, base_ty)
      [] elem[1] = "Downcast" -> Place(encoded_base, base_ty, Some(elem[2]))
      [] OTHER -> Panic("unimplemented")

\* encode_projection that restarts from the local whenever no base is given
encode_projection_no_recursion(index, place, encoded_base_place) ==
    LET base ==
            IF encoded_base_place # None THEN encoded_base_place[2]
            ELSE Place(Local(encode_local(place.local)[2], DefaultPos),
                       get_local_ty(place.local), None)
        r == encode_projection_elem(place.projection[index], base[2], base[3],
                                    base[4])
    IN IF index < 1 \/ index > Len(place.projection) THEN Panic("assert")
       ELSE IF IsErr(encode_local(place.local)) THEN Panic("unwrap")
       ELSE IF IsPanic(r) THEN r ELSE Ok(r)

\* The result is Ok(<<"Place", expression, type, variant>>), an error or an
\* abort.  encoded_base_place is None or Some(<<"Place", ...>>).
RECURSIVE encode_projection(_, _, _)
encode_projection(index, place, encoded_base_place) ==
    IF index < 1 THEN Panic("assert")
    ELSE LET base ==
                 IF encoded_base_place # None THEN Ok(encoded_base_place[2])
                 ELSE IF index = 1
                      THEN LET local == place.local
                               var == encode_local(local)
                           IN IF IsErr(var) THEN Panic("unwrap")
                              ELSE Ok(Place(Local(var[2], DefaultPos),
                                            get_local_ty(local), None))
                      ELSE encode_projection(index - 1, place, None)
         IN IF ~IsOk(base) THEN base
            ELSE IF index > Len(place.projection) THEN Panic("index")
            ELSE LET r == encode_projection_elem(place.projection[index],
                                                 base[2][2], base[2][3], base[2][4])
                 IN IF IsPanic(r) THEN r ELSE Ok(r)

\* encode_place that hands every place, also one without projections, to
\* encode_projection
encode_place_always_projects(place) ==
    encode_projection(Len(place.projection), place, None)

encode_place(place) ==
    IF place.projection = <<>>
    THEN LET local == place.local
             var == encode_local(local)
         IN IF IsErr(var) THEN var
            ELSE Ok(Place(Local(var[2], DefaultPos), get_local_ty(local), None))
    ELSE encode_projection(Len(place.projection), place, None)

\* the encoder functions encode_projection calls itself
encode_projection_callees(index, place, encoded_base_place) ==
    IF index < 1 THEN {}
    ELSE (IF encoded_base_place # None THEN {}
          ELSE IF index = 1 THEN {"encode_local", "get_local_ty"}
          ELSE {"encode_projection"})
         \cup (IF /\ index <= Len(place.projection)
                  /\ place.projection[index] = ElemDeref
                  /\ \/ encoded_base_place # None
                     \/ index = 1 /\ IsOk(encode_local(place.local))
                     \/ index > 1 /\ IsOk(encode_projection(index - 1, place, None))
               THEN {"encode_deref"} ELSE {})

\* the encoder functions encode_place calls itself
encode_place_callees(place) ==
    IF place.projection = <<>> THEN {"encode_local", "get_local_ty"}
    ELSE {"encode_projection"}

(***************************************************************************)
(* OperandEncoder and CastEncoder.                                         *)
(***************************************************************************)
Constant(ty, val) == <<"Constant", ty, val>>
Copy(place) == <<"Copy", place>>
Move(place) == <<"Move", place>>

encode_const_expr(ty, val) ==
    IF ty = TyBool THEN Const(<<"Bool", val # Small(0)>>, DefaultPos)
    ELSE Const(val, DefaultPos)

\* the field of a place that carries its value
encode_value_field(ty) ==
    CASE Kind(ty) = "Bool" -> VField("val_bool", VBool)
      [] Kind(ty) \in {"Int", "Uint", "Char"} -> VField("val_int", VInt)
      [] Kind(ty) \in {"RawPtr", "Ref"} -> VField("val_ref", encode_type(ty[2]))
      [] OTHER -> VField("val_ref", encode_type(ty))

encode_value_expr(encoded_place, place_ty) ==
    expr_field(encoded_place, encode_value_field(place_ty))

eval_place(place) ==
    LET r == encode_place(place) IN
    IF ~IsOk(r) THEN r ELSE Ok(encode_value_expr(r[2][2], r[2][3]))

encode_operand_expr(operand) ==
    IF operand[1] = "Constant" THEN Ok(encode_const_expr(operand[2], operand[3]))
    ELSE eval_place(operand[2])

\* operand.ty(mir, tcx), for a constant and for a place without projections
get_operand_ty(operand) ==
    IF operand[1] = "Constant" THEN operand[2]
    ELSE get_local_ty(operand[2].local)

\* the (source, destination) pairs of the match in encode_cast_expr
CastWhitelist ==
    { <<TyInt("I8"), TyInt("I8")>>, <<TyInt("I8"), TyInt("I16")>>,
      <<TyInt("I8"), TyInt("I32")>>, <<TyInt("I8"), TyInt("I64")>>,
      <<TyInt("I8"), TyInt("I128")>>,
      <<TyInt("I16"), TyInt("I16")>>, <<TyInt("I16"), TyInt("I32")>>,
      <<TyInt("I16"), TyInt("I64")>>, <<TyInt("I16"), TyInt("I128")>>,
      <<TyInt("I32"), TyInt("I32")>>, <<TyInt("I32"), TyInt("I64")>>,
      <<TyInt("I32"), TyInt("I128")>>,
      <<TyInt("I64"), TyInt("I64")>>, <<TyInt("I64"), TyInt("I128")>>,
      <<TyInt("I128"), TyInt("I128")>>,
      <<TyInt("Isize"), TyInt("Isize")>>,
      <<TyChar, TyChar>>, <<TyChar, TyUint("U8")>>, <<TyChar, TyUint("U16")>>,
      <<TyChar, TyUint("U32")>>, <<TyChar, TyUint("U64")>>,
      <<TyChar, TyUint("U128")>>,
      <<TyUint("U8"), TyChar>>,
      <<TyUint("U8"), TyUint("U8")>>, <<TyUint("U8"), TyUint("U16")>>,
      <<TyUint("U8"), TyUint("U32")>>, <<TyUint("U8"), TyUint("U64")>>,
      <<TyUint("U8"), TyUint("U128")>>,
      <<TyUint("U16"), TyUint("U16")>>, <<TyUint("U16"), TyUint("U32")>>,
      <<TyUint("U16"), TyUint("U64")>>, <<TyUint("U16"), TyUint("U128")>>,
      <<TyUint("U32"), TyUint("U32")>>, <<TyUint("U32"), TyUint("U64")>>,
      <<TyUint("U32"), TyUint("U128")>>,
      <<TyUint("U64"), TyUint("U64")>>, <<TyUint("U64"), TyUint("U128")>>,
      <<TyUint("U128"), TyUint("U128")>>,
      <<TyUint("Usize"), TyUint("Usize")>> }

\* encode_cast_expr that admits every cast between integers of one signedness
encode_cast_expr_any_width(operand, dst_ty) ==
    LET src_ty == get_operand_ty(operand) IN
    IF \/ <<src_ty, dst_ty>> \in CastWhitelist
       \/ Kind(src_ty) = Kind(dst_ty) /\ Kind(src_ty) \in {"Int", "Uint"}
    THEN encode_operand_expr(operand)
    ELSE Panic("unimplemented")

encode_cast_expr(operand, dst_ty) ==
    LET src_ty == get_operand_ty(operand) IN
    IF <<src_ty, dst_ty>> \in CastWhitelist THEN encode_operand_expr(operand)
    ELSE Panic("unimplemented")

(***************************************************************************)
(* Source spans and their macro expansions.                                *)
(***************************************************************************)
\* a span that comes from `depth` nested macro expansions; its parent is the
\* call site of the innermost one
ExpnSpan(depth) == <<"ExpnSpan", depth>>

span_parent(span) == IF span[2] = 0 THEN None ELSE Some(ExpnSpan(span[2] - 1))

\* one frame of a macro backtrace: the definition of the macro expanded, by
\* its path, when the expansion has one
ExpnData(macro_def_id) == [macro_def_id |-> macro_def_id]

PanicCause(kind) == <<"PanicCause", kind>>

lookup_size == 3

\* .take(lookup_size).map(|x| x.macro_def_id.map(def_path_str)).flatten()
RECURSIVE flatten(_)
flatten(opts) ==
    IF opts = <<>> THEN <<>>
    ELSE (IF Head(opts) = None THEN <<>> ELSE <<Head(opts)[2]>>) \o flatten(Tail(opts))

macro_names(macro_backtrace) ==
    LET taken == SubSeq(macro_backtrace, 1,
                        IF Len(macro_backtrace) < lookup_size
                        THEN Len(macro_backtrace) ELSE lookup_size)
    IN flatten([k \in 1..Len(taken) |-> taken[k].macro_def_id])

\* the slice pattern [p1, .., pk, ..]
StartsWith(names, pattern) ==
    /\ Len(names) >= Len(pattern)
    /\ SubSeq(names, 1, Len(pattern)) = pattern

\* encode_panic_cause with the arm of assert before the arm of debug_assert
encode_panic_cause_assert_first(macro_backtrace) ==
    LET names == macro_names(macro_backtrace) IN
    CASE StartsWith(names, <<"std::panic", "std::assert">>) -> PanicCause("Assert")
      [] StartsWith(names, <<"std::panic", "std::assert", "std::debug_assert">>) ->
            PanicCause("DebugAssert")
      [] StartsWith(names, <<"std::panic", "std::unreachable">>) ->
            PanicCause("Unreachable")
      [] StartsWith(names, <<"std::panic", "std::unimplemented">>) ->
            PanicCause("Unimplemented")
      [] StartsWith(names, <<"std::panic">>) -> PanicCause("Panic")
      [] OTHER -> PanicCause("Generic")

\* the arms of the match are tried in order
encode_panic_cause(macro_backtrace) ==
    LET names == macro_names(macro_backtrace) IN
    IF StartsWith(names, <<"std::panic", "std::assert", "std::debug_assert">>)
    THEN PanicCause("DebugAssert")
    ELSE IF StartsWith(names, <<"std::panic", "std::assert">>)
    THEN PanicCause("Assert")
    ELSE IF StartsWith(names, <<"std::panic", "std::unreachable">>)
    THEN PanicCause("Unreachable")
    ELSE IF StartsWith(names, <<"std::panic", "std::unimplemented">>)
    THEN PanicCause("Unimplemented")
    ELSE IF StartsWith(names, <<"std::panic">>)
    THEN PanicCause("Panic")
    ELSE PanicCause("Generic")

(***************************************************************************)
(* SnapshotCatalog: snapshot types, domains and domain functions.          *)
(***************************************************************************)
SNAPSHOT_PREFIX == "Snap$"

DomainFunc(name, formal_args, return_type, unique, domain_name) ==
    [name |-> name, formal_args |-> formal_args, return_type |-> return_type,
     unique |-> unique, domain_name |-> domain_name]

\* the purified form of a type: a heap-cell type becomes the snapshot of its
\* predicate, every other type is kept
translate_type(t) ==
    IF t[1] = "TypedRef"
    THEN CASE t[2] \in {"i8", "i16", "i32", "i64", "i128", "isize", "u8", "u16",
                        "u32", "u64", "u128", "usize", "char"} -> VInt
           [] t[2] = "bool" -> VBool
           [] OTHER -> Domain(SNAPSHOT_PREFIX \o t[2])
    ELSE t

RECURSIVE translate_args(_)
translate_args(formal_args) ==
    IF formal_args = <<>> THEN <<>>
    ELSE <<LocalVar(Head(formal_args)[1], translate_type(Head(formal_args)[2]))>>
         \o translate_args(Tail(formal_args))

encode_nat_argument == LocalVar("count", Domain("$Nat$"))

encode_field_domain_func(field_type, field_name, domain_name, variant_name) ==
    LET field_domain_name ==
            IF variant_name = None THEN domain_name
            ELSE domain_name \o variant_name[2]
    IN DomainFunc(field_domain_name \o "$field$" \o field_name,
                  <<LocalVar("self", Domain(domain_name))>>,
                  field_type, FALSE, domain_name)

encode_axiomatized_function(name, formal_args, return_type) ==
    DomainFunc("axiom$" \o name,
               translate_args(formal_args) \o <<encode_nat_argument>>,
               translate_type(return_type), FALSE, "$Axioms$")

(***************************************************************************)
(* ExprPurifier: the fold of an expression.  self_function is the field of *)
(* the purifier.  A fold that aborts gives <<"Panic", kind>>.              *)
(***************************************************************************)
UNREACHABLE_INT == "builtin$unreach_int"
SNAP_FUNCTION == "snap$"
RESULT_LOCAL == "__result"

AnyPanic(es) == \E k \in 1..Len(es) : IsPanic(es[k])
FirstPanic(es) == es[CHOOSE k \in 1..Len(es) : IsPanic(es[k])
                                               /\ \A m \in 1..(k - 1) : ~IsPanic(es[m])]

RECURSIVE fold(_, _)

\* fold_local that folds the expression it puts in the place of the result
fold_local_refolded(v, p, self_function) ==
    IF v[1] = RESULT_LOCAL THEN fold(self_function, self_function)
    ELSE Local(LocalVar(v[1], translate_type(v[2])), p)

fold_local(v, p, self_function) ==
    IF v[1] = RESULT_LOCAL THEN self_function
    ELSE Local(LocalVar(v[1], translate_type(v[2])), p)

\* fold_field_with that unwraps val_bool and val_int only
fold_field_with_val_ref_projected(receiver, inner, field, pos) ==
    LET receiver_type == get_type(receiver) IN
    IF IsPanic(receiver_type) THEN receiver_type
    ELSE IF receiver_type[1] # "TypedRef" THEN Panic("unreachable")
    ELSE LET domain0 == SNAPSHOT_PREFIX \o receiver_type[2]
             is_variant == receiver[1] = "Variant"
             name == IF is_variant
                     THEN SubSeq(receiver[3][1], 6, Len(receiver[3][1]))
                     ELSE ""
             variant_name == IF is_variant THEN Some(name) ELSE None
         IN IF Len(name) > Len(domain0) THEN Panic("slice")
            ELSE LET receiver_domain == SubSeq(domain0, 1, Len(domain0) - Len(name))
                     field_name == field[1]
                 IN IF IsPanic(inner) THEN inner
                    ELSE CASE field_name \in {"val_bool", "val_int"} -> inner
                           [] field_name = "discriminant" ->
                                DomainFuncApp(
                                    DomainFunc("variant$",
                                               <<LocalVar("self", Domain(receiver_domain))>>,
                                               VInt, FALSE, receiver_domain),
                                    <<inner>>, pos)
                           [] OTHER ->
                                DomainFuncApp(
                                    encode_field_domain_func(
                                        translate_type(field[2]),
                                        SubSeq(field_name, 3, Len(field_name)),
                                        receiver_domain, variant_name),
                                    <<inner>>, pos)

\* fold_field_with that keeps the suffix of the variant in the domain name
fold_field_with_untrimmed(receiver, inner, field, pos) ==
    LET receiver_type == get_type(receiver) IN
    IF IsPanic(receiver_type) THEN receiver_type
    ELSE IF receiver_type[1] # "TypedRef" THEN Panic("unreachable")
    ELSE LET domain0 == SNAPSHOT_PREFIX \o receiver_type[2]
             is_variant == receiver[1] = "Variant"
             name == IF is_variant
                     THEN SubSeq(receiver[3][1], 6, Len(receiver[3][1]))
                     ELSE ""
             variant_name == IF is_variant THEN Some(name) ELSE None
         IN IF Len(name) > Len(domain0) THEN Panic("slice")
            ELSE LET receiver_domain == domain0
                     field_name == field[1]
                 IN IF IsPanic(inner) THEN inner
                    ELSE CASE field_name \in {"val_bool", "val_int", "val_ref"} -> inner
                           [] field_name = "discriminant" ->
                                DomainFuncApp(
                                    DomainFunc("variant$",
                                               <<LocalVar("self", Domain(receiver_domain))>>,
                                               VInt, FALSE, receiver_domain),
                                    <<inner>>, pos)
                           [] OTHER ->
                                DomainFuncApp(
                                    encode_field_domain_func(
                                        translate_type(field[2]),
                                        SubSeq(field_name, 3, Len(field_name)),
                                        receiver_domain, variant_name),
                                    <<inner>>, pos)

\* the rewrite of a field access, given the folded receiver `inner`
fold_field_with(receiver, inner, field, pos) ==
    LET receiver_type == get_type(receiver) IN
    IF IsPanic(receiver_type) THEN receiver_type
    ELSE IF receiver_type[1] # "TypedRef" THEN Panic("unreachable")
    ELSE LET domain0 == SNAPSHOT_PREFIX \o receiver_type[2]
             is_variant == receiver[1] = "Variant"
             name == IF is_variant
                     THEN SubSeq(receiver[3][1], 6, Len(receiver[3][1]))
                     ELSE ""
             variant_name == IF is_variant THEN Some(name) ELSE None
         IN IF Len(name) > Len(domain0) THEN Panic("slice")
            ELSE LET receiver_domain == SubSeq(domain0, 1, Len(domain0) - Len(name))
                     field_name == field[1]
                 IN IF IsPanic(inner) THEN inner
                    ELSE CASE field_name \in {"val_bool", "val_int", "val_ref"} -> inner
                           [] field_name = "discriminant" ->
                                DomainFuncApp(
                                    DomainFunc("variant$",
                                               <<LocalVar("self", Domain(receiver_domain))>>,
                                               VInt, FALSE, receiver_domain),
                                    <<inner>>, pos)
                           [] OTHER ->
                                DomainFuncApp(
                                    encode_field_domain_func(
                                        translate_type(field[2]),
                                        SubSeq(field_name, 3, Len(field_name)),
                                        receiver_domain, variant_name),
                                    <<inner>>, pos)

\* fold_func_app_with without the arm of the snapshot function
fold_func_app_with_snap_kept(name, folded_args, formal_args, return_type, pos) ==
    IF AnyPanic(folded_args) THEN FirstPanic(folded_args)
    ELSE IF name = UNREACHABLE_INT
    THEN FuncApp(name, folded_args, formal_args, return_type, pos)
    ELSE DomainFuncApp(encode_axiomatized_function(name, formal_args, return_type),
                       folded_args \o <<Local(encode_nat_argument, DefaultPos)>>,
                       pos)

\* fold_func_app_with that pushes no fuel argument and takes the folded
\* arguments from the last to the first
fold_func_app_with_no_fuel(name, folded_args, formal_args, return_type, pos) ==
    CASE name = UNREACHABLE_INT ->
            IF AnyPanic(folded_args) THEN FirstPanic(folded_args)
            ELSE FuncApp(name, folded_args, formal_args, return_type, pos)
      [] name = SNAP_FUNCTION ->
            IF Len(folded_args) # 1 THEN Panic("assert")
            ELSE folded_args[1]
      [] OTHER ->
            IF AnyPanic(folded_args) THEN FirstPanic(folded_args)
            ELSE DomainFuncApp(
                     encode_axiomatized_function(name, formal_args, return_type),
                     [k \in 1..Len(folded_args) |->
                          folded_args[Len(folded_args) + 1 - k]],
                     pos)

\* the rewrite of a function application, given its folded arguments; the
\* snapshot function is erased by the caller, which folds its one argument
fold_func_app_with(name, folded_args, formal_args, return_type, pos) ==
    CASE name = UNREACHABLE_INT ->
            IF AnyPanic(folded_args) THEN FirstPanic(folded_args)
            ELSE FuncApp(name, folded_args, formal_args, return_type, pos)
      [] name = SNAP_FUNCTION ->
            IF Len(folded_args) # 1 THEN Panic("assert")
            ELSE folded_args[1]
      [] OTHER ->
            IF AnyPanic(folded_args) THEN FirstPanic(folded_args)
            ELSE DomainFuncApp(
                     encode_axiomatized_function(name, formal_args, return_type),
                     folded_args \o <<Local(encode_nat_argument, DefaultPos)>>,
                     pos)

fold_predicate_access_predicate(name, a, perm_amount, pos) == BoolConst(TRUE)

\* the rule of a folder that does not override it: the node is kept
fold_field_access_predicate_kept(receiver, perm_amount, pos) ==
    FieldAccessPredicate(receiver, perm_amount, pos)

fold_field_access_predicate(receiver, perm_amount, pos) == BoolConst(TRUE)

RECURSIVE fold_all(_, _)
fold_all(es, self_function) ==
    IF es = <<>> THEN <<>>
    ELSE <<fold(Head(es), self_function)>> \o fold_all(Tail(es), self_function)

\* the rule of a folder that does not override fold_unfolding: the node is
\* rebuilt around its folded body
fold_unfolding_kept(name, args, expr, perm, variant, pos, self_function) ==
    LET body == fold(expr, self_function) IN
    IF IsPanic(body) THEN body
    ELSE Unfolding(name, args, body, perm, variant, pos)

fold_unfolding(name, args, expr, perm, variant, pos, self_function) ==
    fold(expr, self_function)

\* fold_variant that strips the tag and does not fold the base
fold_variant_base_unfolded(base, variant, p, self_function) == base

fold_variant(base, variant, p, self_function) == fold(base, self_function)

fold_field(receiver, field, pos, self_function) ==
    fold_field_with(receiver, fold(receiver, self_function), field, pos)

fold_func_app(name, args, formal_args, return_type, pos, self_function) ==
    IF name = SNAP_FUNCTION /\ Len(args) # 1 THEN Panic("assert")
    ELSE fold_func_app_with(name, fold_all(args, self_function), formal_args,
                            return_type, pos)

\* ExprFolder::fold: one rule per kind of node; the kinds the purifier does
\* not override are rebuilt from their folded children
fold(e, self_function) ==
    CASE e[1] = "Local" -> fold_local(e[2], e[3], self_function)
      [] e[1] = "Variant" -> fold_variant(e[2], e[3], e[4], self_function)
      [] e[1] = "Field" -> fold_field(e[2], e[3], e[4], self_function)
      [] e[1] = "AddrOf" ->
            LET b == fold(e[2], self_function) IN
            IF IsPanic(b) THEN b ELSE AddrOf(b, e[3], e[4])
      [] e[1] = "Const" -> e
      [] e[1] = "BinOp" ->
            LET l == fold(e[3], self_function)
                r == fold(e[4], self_function)
            IN IF IsPanic(l) THEN l ELSE IF IsPanic(r) THEN r
               ELSE BinOp(e[2], l, r, e[5])
      [] e[1] = "UnaryOp" ->
            LET a == fold(e[3], self_function) IN
            IF IsPanic(a) THEN a ELSE UnaryOp(e[2], a, e[4])
      [] e[1] = "FuncApp" ->
            fold_func_app(e[2], e[3], e[4], e[5], e[6], self_function)
      [] e[1] = "DomainFuncApp" ->
            LET as == fold_all(e[3], self_function) IN
            IF AnyPanic(as) THEN FirstPanic(as) ELSE DomainFuncApp(e[2], as, e[4])
      [] e[1] = "PredicateAccessPredicate" ->
            fold_predicate_access_predicate(e[2], e[3], e[4], e[5])
      [] e[1] = "FieldAccessPredicate" ->
            fold_field_access_predicate(e[2], e[3], e[4])
      [] e[1] = "Unfolding" ->
            fold_unfolding(e[2], e[3], e[4], e[5], e[6], e[7], self_function)
      [] e[1] = "Panic" -> e

\* ExprPurifier { snapshots, self_function }.fold(e)
purify(e, self_function) == fold(e, self_function)

(***************************************************************************)
(* Inputs of the operator encoder.                                         *)
(***************************************************************************)
FixedIntTys == {TyInt(k) : k \in IntTys} \cup {TyUint(k) : k \in UintTys}
OpTys == FixedIntTys \cup {TyBool, TyChar, TyFloat}

\* operand values: the bounds of the type and a few numbers around them
OperandNums(ty) ==
    IF ty \in FixedIntTys
    THEN {StdMin(ty), StdMax(ty), Small(0), Small(1), Small(100), Small(200)}
         \cup (IF Kind(ty) = "Int" THEN {Small(-1)} ELSE {})
    ELSE {Small(0), Small(1)}

Operands(ty) == {IntConst(n) : n \in OperandNums(ty)}

(***************************************************************************)
(* Inputs of the place encoder.                                            *)
(***************************************************************************)
Elems == {ElemField(0), ElemField(1), ElemDeref, ElemDowncast(0),
          ElemDowncast(1), ElemIndex}

RECURSIVE Chains(_)
Chains(n) ==
    IF n = 0 THEN {<<>>}
    ELSE LET shorter == Chains(n - 1) IN
         shorter \cup {Append(c, e) : c \in {d \in shorter : Len(d) = n - 1},
                                      e \in Elems}

Places == {PlaceOf(l, c) : l \in Locals, c \in Chains(MaxProj)}

\* an already encoded base of the form address-of E, as a caller builds it
\* for a reference to the local
AddrOfBase(local) ==
    LET ty == get_local_ty(local)
        inner == Local(LocalVar(encode_local_var_name(local), encode_type(ty)),
                       DefaultPos)
    IN Place(AddrOf(inner, encode_type(TyRef(ty)), DefaultPos), TyRef(ty), None)

AddrOfBoxBase(local) ==
    LET ty == get_local_ty(local)
        inner == Local(LocalVar(encode_local_var_name(local), encode_type(ty)),
                       DefaultPos)
    IN Place(AddrOf(inner, encode_type(TyBox(ty)), DefaultPos), TyBox(ty), None)

\* the precomputed bases a caller passes for step `index` of `place`: none,
\* the encoding of the steps before it, or an address-of expression
Bases(index, place) ==
    {None}
    \cup (IF index >= 2 /\ IsOk(encode_projection(index - 1, place, None))
          THEN {Some(encode_projection(index - 1, place, None)[2])} ELSE {})
    \cup (IF index = 1 /\ Registered(get_local_ty(place.local))
          THEN {Some(AddrOfBase(place.local)), Some(AddrOfBoxBase(place.local))}
          ELSE {})

ProjectionArgs ==
    UNION {UNION {{[index |-> i, place |-> pl, encoded_base_place |-> b] :
                      b \in Bases(i, pl)} :
                  i \in 0..Len(pl.projection)} :
           pl \in {q \in Places : q.projection # <<>>}}

DerefTys == {LocalDecls[i] : i \in 1..Len(LocalDecls)} \cup {TyBox(TyE), TyBox(TyI32)}

DerefBases ==
    LET x == Local(LocalVar("_1", TypedRef("ref$i32")), DefaultPos)
        y == Local(LocalVar("_2", TypedRef("m_S")), DefaultPos)
        yx == expr_field(y, encode_struct_field("x", TyI32))
    IN {x, y, yx,
        AddrOf(y, TypedRef("ref$m_S"), DefaultPos),
        AddrOf(yx, TypedRef("ref$i32"), DefaultPos),
        AddrOf(x, TypedRef("box$ref$i32"), DefaultPos)}

DerefArgs == {[encoded_base |-> b, base_ty |-> t] : b \in DerefBases, t \in DerefTys}

(***************************************************************************)
(* Inputs of the cast encoder.                                             *)
(***************************************************************************)
CastTys == FixedIntTys \cup {TyBool, TyChar, TyFloat}

CastOperands ==
    {Constant(ty, v) : ty \in CastTys, v \in {Small(0), Small(65)}}
    \cup {Copy(PlaceOf(l, <<>>)) : l \in Locals}
    \cup {Move(PlaceOf(l, <<>>)) : l \in Locals}

CastArgs == {[operand |-> o, dst_ty |-> t] : o \in CastOperands, t \in CastTys}

(***************************************************************************)
(* Inputs of the purifier: expressions of the target language up to a      *)
(* depth, and the self-reference of the enclosing pure function.           *)
(***************************************************************************)
FormalArgs(n) ==
    SubSeq(<<LocalVar("a1", TypedRef("m_S")), LocalVar("a2", TypedRef("i32"))>>, 1, n)

ExprLeaves ==
    { Local(LocalVar("x", TypedRef("m_S")), 1),
      Local(LocalVar("e", TypedRef("m_E")), 1),
      Local(LocalVar(RESULT_LOCAL, TypedRef("i32")), 1),
      Local(LocalVar(RESULT_LOCAL, VBool), 2),
      Local(LocalVar("n", VInt), 1),
      Const(Small(1), DefaultPos),
      expr_variant(Local(LocalVar("e", TypedRef("m_E")), 1), "A") }

SecondArgs ==
    { Local(LocalVar("n", VInt), 1),
      expr_field(Local(LocalVar("x", TypedRef("m_S")), 1), VField("val_int", VInt)) }

ExprFields ==
    { VField("val_int", VInt), VField("val_bool", VBool),
      VField("val_ref", TypedRef("m_S")), VField("discriminant", VInt),
      VField("f$s", TypedRef("m_S")) }

FuncNames == {UNREACHABLE_INT, SNAP_FUNCTION, "f"}
PermAmounts == {"read", "write"}

SomeDomainFunc ==
    DomainFunc("cons$", <<LocalVar("self", Domain("Snap$m_S"))>>, VInt, FALSE,
               "Snap$m_S")

\* the expressions with `e` as their first child
ExprsOver(e) ==
    {Field(e, f, 2) : f \in ExprFields}
    \cup {Variant(e, VField("enum_A", TypedRef("m_EA")), DefaultPos),
          Unfolding("m_S", <<Local(LocalVar("x", TypedRef("m_S")), 1)>>, e, "read",
                    None, DefaultPos),
          AddrOf(e, TypedRef("ref$m_S"), DefaultPos),
          UnaryOp("Not", e, DefaultPos),
          BinOp("Add", e, Local(LocalVar(RESULT_LOCAL, TypedRef("i32")), 1),
                DefaultPos),
          DomainFuncApp(SomeDomainFunc, <<e>>, DefaultPos)}
    \cup {FuncApp(name, <<e>>, FormalArgs(1), TypedRef("i32"), 3) : name \in FuncNames}
    \cup {FuncApp(name, <<e, a>>, FormalArgs(2), TypedRef("i32"), 3) :
             name \in FuncNames, a \in SecondArgs}
    \cup {PredicateAccessPredicate("m_S", e, perm, DefaultPos) : perm \in PermAmounts}
    \cup {FieldAccessPredicate(e, perm, DefaultPos) : perm \in PermAmounts}

RECURSIVE Exprs(_)
Exprs(depth) ==
    IF depth <= 1
    THEN ExprLeaves
         \cup {FuncApp(name, <<>>, <<>>, TypedRef("i32"), 3) : name \in FuncNames}
    ELSE LET smaller == Exprs(depth - 1) IN
         smaller \cup UNION {ExprsOver(e) : e \in smaller}

\* the self-reference as a heap-free domain-function application, and as an
\* application of the heap-level function
SelfFunctions ==
    { DomainFuncApp(encode_axiomatized_function("f", FormalArgs(1), TypedRef("i32")),
                    <<Local(LocalVar("a1", Domain("Snap$m_S")), DefaultPos),
                      Local(encode_nat_argument, DefaultPos)>>,
                    DefaultPos),
      FuncApp("f", <<Local(LocalVar("a1", TypedRef("m_S")), DefaultPos)>>,
              FormalArgs(1), TypedRef("i32"), DefaultPos) }

PurifyArgs == {[e |-> e, self_function |-> sf] : e \in Exprs(MaxDepth),
                                                  sf \in SelfFunctions}

(***************************************************************************)
(* Inputs of the span operations.                                          *)
(***************************************************************************)
MacroPaths == {"std::panic", "std::assert", "std::debug_assert",
               "std::unreachable", "std::unimplemented", "std::vec"}

Frames == {ExpnData(Some(m)) : m \in MacroPaths} \cup {ExpnData(None)}

RECURSIVE Backtraces(_)
Backtraces(n) ==
    IF n = 0 THEN {<<>>}
    ELSE LET shorter == Backtraces(n - 1) IN
         shorter \cup {Append(b, f) : b \in {c \in shorter : Len(c) = n - 1},
                                      f \in Frames}

PanicCauseArgs == {[macro_backtrace |-> b] : b \in Backtraces(MaxBacktrace)}

RootSpanArgs == {[span |-> ExpnSpan(d)] : d \in 0..MaxExpnDepth}

(***************************************************************************)
(* The session: a caller hands one request to the encoder (Init draws it), *)
(* the operation called runs to its end and leaves its result.             *)
(***************************************************************************)
Pending == <<"Pending">>

BinOpCheckArgs ==
    UNION {{[op |-> op, left |-> l, right |-> r, ty |-> ty] :
               op \in BinOps, l \in Operands(ty), r \in Operands(ty)} :
           ty \in OpTys}

Init ==
    /\ check_binary_operations \in BOOLEAN
    /\ pc = "called"
    /\ ret = Pending
    /\ callees = {}
    /\ res = None
    /\ iterations = 0
    /\ \/ call = "encode_bin_op_check" /\ arg \in BinOpCheckArgs
       \/ call = "encode_place" /\ arg \in {[place |-> pl] : pl \in Places}
       \/ call = "encode_projection" /\ arg \in ProjectionArgs
       \/ call = "encode_deref" /\ arg \in DerefArgs
       \/ call = "encode_cast_expr" /\ arg \in CastArgs
       \/ call = "purify" /\ arg \in PurifyArgs
       \/ call = "encode_panic_cause" /\ arg \in PanicCauseArgs
       \/ call = "get_root_span" /\ arg \in RootSpanArgs

EncodeBinOpCheck ==
    /\ pc = "called" /\ call = "encode_bin_op_check"
    /\ ret' = encode_bin_op_check(arg.op, arg.left, arg.right, arg.ty,
                                  check_binary_operations)
    /\ callees' = IF is_checkable(arg.op) /\ check_binary_operations
                  THEN {"encode_bin_op_expr"} ELSE {}
    /\ pc' = "done"
    /\ UNCHANGED <<check_binary_operations, call, arg, res, iterations>>

EncodePlace ==
    /\ pc = "called" /\ call = "encode_place"
    /\ ret' = encode_place(arg.place)
    /\ callees' = encode_place_callees(arg.place)
    /\ pc' = "done"
    /\ UNCHANGED <<check_binary_operations, call, arg, res, iterations>>

EncodeProjection ==
    /\ pc = "called" /\ call = "encode_projection"
    /\ ret' = encode_projection(arg.index, arg.place, arg.encoded_base_place)
    /\ callees' = encode_projection_callees(arg.index, arg.place,
                                            arg.encoded_base_place)
    /\ pc' = "done"
    /\ UNCHANGED <<check_binary_operations, call, arg, res, iterations>>

EncodeDeref ==
    /\ pc = "called" /\ call = "encode_deref"
    /\ ret' = encode_deref(arg.encoded_base, arg.base_ty)
    /\ callees' = {"can_be_dereferenced"}
    /\ pc' = "done"
    /\ UNCHANGED <<check_binary_operations, call, arg, res, iterations>>

EncodeCastExpr ==
    /\ pc = "called" /\ call = "encode_cast_expr"
    /\ ret' = encode_cast_expr(arg.operand, arg.dst_ty)
    /\ callees' = {"get_operand_ty"}
                   \cup (IF <<get_operand_ty(arg.operand), arg.dst_ty>> \in CastWhitelist
                         THEN {"encode_operand_expr"} ELSE {})
    /\ pc' = "done"
    /\ UNCHANGED <<check_binary_operations, call, arg, res, iterations>>

Purify ==
    /\ pc = "called" /\ call = "purify"
    /\ ret' = purify(arg.e, arg.self_function)
    /\ callees' = {"fold"}
    /\ pc' = "done"
    /\ UNCHANGED <<check_binary_operations, call, arg, res, iterations>>

EncodePanicCause ==
    /\ pc = "called" /\ call = "encode_panic_cause"
    /\ ret' = encode_panic_cause(arg.macro_backtrace)
    /\ callees' = {}
    /\ pc' = "done"
    /\ UNCHANGED <<check_binary_operations, call, arg, res, iterations>>

\* get_root_span, one step at a time.  `res` is its local variable and
\* `iterations` counts the times the body of its loop has run.
\* let mut res = span;
GetRootSpanEnter ==
    /\ pc = "called" /\ call = "get_root_span"
    /\ res' = Some(arg.span)
    /\ pc' = "while"
    /\ UNCHANGED <<check_binary_operations, call, arg, ret, callees, iterations>>

\* while let Some(parent_span) = span.parent() { res = parent_span; } res
GetRootSpanWhile ==
    /\ pc = "while" /\ call = "get_root_span"
    /\ LET parent == span_parent(arg.span) IN
       IF parent # None
       THEN /\ iterations < MaxIterations
            /\ res' = Some(parent[2])
            /\ iterations' = iterations + 1
            /\ UNCHANGED <<pc, ret>>
       ELSE /\ ret' = res[2]
            /\ pc' = "done"
            /\ UNCHANGED <<res, iterations>>
    /\ UNCHANGED <<check_binary_operations, call, arg, callees>>

Next ==
    \/ EncodeBinOpCheck
    \/ EncodePlace
    \/ EncodeProjection
    \/ EncodeDeref
    \/ EncodeCastExpr
    \/ Purify
    \/ EncodePanicCause
    \/ GetRootSpanEnter
    \/ GetRootSpanWhile

Spec == Init /\ [][Next]_vars

(***************************************************************************)
(* Overflow checks.                                                        *)
(***************************************************************************)
Returned(name) == pc = "done" /\ call = name

ArithOps == {"Add", "Sub", "Mul"}

\* the mathematical result of the operation lies outside [MIN(ty), MAX(ty)]
OutOfRange(result, ty) ==
    NumLt(Eval(result), StdMin(ty)) \/ NumLt(StdMax(ty), Eval(result))

\* C1: with overflow checking enabled, the check of Add, Sub or Mul on a
\* fixed-width integer type is (result < MIN(ty)) || (result > MAX(ty)) with
\* the exact bounds of the type, and so is true exactly when the mathematical
\* result is out of the range of the type.
C1_BoundsCheckIsExact ==
    (/\ Returned("encode_bin_op_check")
     /\ check_binary_operations
     /\ arg.op \in ArithOps
     /\ arg.ty \in FixedIntTys)
    => LET result == encode_bin_op_expr(arg.op, arg.left, arg.right, arg.ty) IN
       /\ ret = ExprBin("Or",
                    ExprBin("LtCmp", result, IntConst(StdMin(arg.ty))),
                    ExprBin("GtCmp", result, IntConst(StdMax(arg.ty))))
       /\ EvalDefined(ret) => (Eval(ret)[2] <=> OutOfRange(result, arg.ty))

\* C2: the check is the constant false, and the call does not abort, when the
\* switch is off, when the operator is a shift or any operator other than
\* Add, Sub, Mul, and when the type is not a supported fixed-width integer.
C2_FalseOutsideBoundsCheck ==
    (/\ Returned("encode_bin_op_check")
     /\ \/ ~check_binary_operations
        \/ arg.op \notin ArithOps
        \/ arg.ty \notin FixedIntTys)
    => ret = BoolConst(FALSE)

(***************************************************************************)
(* Places.                                                                 *)
(***************************************************************************)
\* C3: when the type of the local of a place has no registered predicate,
\* encode_place and encode_projection (no precomputed base, any chain
\* length) return an error to the caller and never abort.
C3_MissingPredicateIsAnError ==
    /\ (Returned("encode_place")
        /\ ~Registered(get_local_ty(arg.place.local)))
       => IsErr(ret)
    /\ (Returned("encode_projection")
        /\ ~Registered(get_local_ty(arg.place.local))
        /\ arg.index >= 1
        /\ arg.encoded_base_place = None)
       => IsErr(ret)

DerefPointee(base_ty) == IF is_box(base_ty) THEN boxed_ty(base_ty) ELSE base_ty[2]

\* C5: dereferencing a raw pointer, a reference or a box whose encoded base
\* is address-of E gives exactly E; only a base that is no address-of gets
\* the referent field of the pointee type appended.
C5_DerefCancelsAddrOf ==
    /\ (/\ Returned("encode_projection")
        /\ arg.index = 1
        /\ arg.place.projection[1] = ElemDeref
        /\ arg.encoded_base_place # None)
       => ret = Ok(Place(arg.encoded_base_place[2][2][2],
                         DerefPointee(arg.encoded_base_place[2][3]), None))
    /\ (Returned("encode_deref") /\ can_be_dereferenced(arg.base_ty))
       =>
       /\ ret[1] = "Place"
       /\ ret[3] = DerefPointee(arg.base_ty)
       /\ ret[4] = None
       /\ arg.encoded_base[1] = "AddrOf" => ret[2] = arg.encoded_base[2]
       /\ arg.encoded_base[1] # "AddrOf" =>
             ret[2] = Field(arg.encoded_base,
                            VField("val_ref",
                                   TypedRef(TypeName(DerefPointee(arg.base_ty)))),
                            DefaultPos)

C5_Witness ==
    /\ Returned("encode_deref")
    /\ is_box(arg.base_ty)
    /\ arg.encoded_base[1] = "AddrOf"
    /\ ret[1] = "Place"
    /\ ret[2] = arg.encoded_base[2]

\* the call handed the encoding of the steps before `index` as its base
ConsistentBase ==
    /\ arg.index >= 2
    /\ arg.encoded_base_place # None
    /\ Ok(arg.encoded_base_place[2])
          = encode_projection(arg.index - 1, arg.place, None)

\* C6: for 2 <= n <= length of the chain, encode_projection(n, place, Some(b))
\* with b the result of encode_projection(n - 1, place, None) equals
\* encode_projection(n, place, None), and is step n's rule applied to b.
C6_PrecomputedBaseAgrees ==
    (Returned("encode_projection") /\ ConsistentBase)
    => LET b == arg.encoded_base_place[2]
           step == encode_projection_elem(arg.place.projection[arg.index],
                                          b[2], b[3], b[4])
       IN /\ ret = encode_projection(arg.index, arg.place, None)
          /\ ret = IF IsPanic(step) THEN step ELSE Ok(step)

C6_Witness ==
    /\ Returned("encode_projection")
    /\ ConsistentBase
    /\ IsOk(ret)
    /\ arg.place.projection[1] = ElemDowncast(1)
    /\ arg.place.projection[2] = ElemField(1)

\* C7: for a local whose type has a registered predicate, encode_place on a
\* place without projections returns (encode_local(local), the type of the
\* local, no variant) and does not call encode_projection.
C7_EmptyProjectionIsLocal ==
    (/\ Returned("encode_place")
     /\ arg.place.projection = <<>>
     /\ Registered(get_local_ty(arg.place.local)))
    => /\ IsOk(encode_local(arg.place.local))
       /\ ret = Ok(Place(Local(encode_local(arg.place.local)[2], DefaultPos),
                         LocalDecls[arg.place.local + 1], None))
       /\ "encode_projection" \notin callees

C7_Witness ==
    /\ Returned("encode_place")
    /\ arg.place.projection = <<>>
    /\ IsOk(ret)
    /\ ret[2][2][2][1] = "_3"

(***************************************************************************)
(* Casts.                                                                  *)
(***************************************************************************)
FixedWidth(ty) == Kind(ty) \in {"Int", "Uint"} /\ ty[2] \notin {"Isize", "Usize"}
PointerSized(ty) == Kind(ty) \in {"Int", "Uint"} /\ ty[2] \in {"Isize", "Usize"}
CharUnsigned(ty) == Kind(ty) = "Uint" /\ FixedWidth(ty)

\* same signedness, same width or wider; a pointer-sized integer to itself;
\* char to char
IntegerWhitelist(src, dst) ==
    \/ /\ FixedWidth(src) /\ FixedWidth(dst)
       /\ Kind(src) = Kind(dst)
       /\ Width(src[2]) <= Width(dst[2])
    \/ PointerSized(src) /\ dst = src
    \/ src = TyChar /\ dst = TyChar

\* the whitelist as the claim words it: conversions between char and the
\* unsigned types of 8 to 128 bits, in both directions
ClaimedWhitelist(src, dst) ==
    \/ IntegerWhitelist(src, dst)
    \/ src = TyChar /\ CharUnsigned(dst)
    \/ CharUnsigned(src) /\ dst = TyChar

\* the whitelist of the code: char to every unsigned type of 8 to 128 bits,
\* and to char from u8 alone
AmendedWhitelist(src, dst) ==
    \/ IntegerWhitelist(src, dst)
    \/ src = TyChar /\ CharUnsigned(dst)
    \/ src = TyUint("U8") /\ dst = TyChar

\* C8 as stated: a cast succeeds exactly for the claimed whitelist, with the
\* encoded operand as its result; every other cast aborts as unimplemented.
C8_CastWhitelistAsClaimed ==
    Returned("encode_cast_expr")
    => IF ClaimedWhitelist(get_operand_ty(arg.operand), arg.dst_ty)
       THEN ret = encode_operand_expr(arg.operand)
       ELSE ret = Panic("unimplemented")

\* C8, amended: the same with u8 as the only unsigned source of a cast to
\* char.
C8_CastWhitelist ==
    Returned("encode_cast_expr")
    => IF AmendedWhitelist(get_operand_ty(arg.operand), arg.dst_ty)
       THEN ret = encode_operand_expr(arg.operand)
       ELSE ret = Panic("unimplemented")

C8_Witness ==
    /\ Returned("encode_cast_expr")
    /\ arg.operand = Copy(PlaceOf(12, <<>>))
    /\ arg.dst_ty = TyUint("U32")
    /\ IsOk(ret)
    /\ ret[2][1] = "Field"

(***************************************************************************)
(* Purification.                                                           *)
(***************************************************************************)
Purified == Returned("purify") /\ ~IsPanic(ret)

\* only purified locals, domain-function applications, constants, operators
RECURSIVE IsPure(_)
IsPure(e) ==
    CASE e[1] = "Local" -> e[2][1] # RESULT_LOCAL /\ e[2][2][1] # "TypedRef"
      [] e[1] = "Const" -> TRUE
      [] e[1] = "BinOp" -> IsPure(e[3]) /\ IsPure(e[4])
      [] e[1] = "UnaryOp" -> IsPure(e[3])
      [] e[1] = "DomainFuncApp" -> \A k \in 1..Len(e[3]) : IsPure(e[3][k])
      [] OTHER -> FALSE

\* C4 as stated: purify(purify(e)) = purify(e) for every e on which purify
\* succeeds, whatever the self-reference is.
C4_PurifyIdempotentAsClaimed ==
    Purified => purify(ret, arg.self_function) = ret

\* the purifier leaves its own self-reference unchanged
SelfFunctionIsPure == purify(arg.self_function, arg.self_function) = arg.self_function

\* C4, amended: purify(purify(e)) = purify(e) for every e on which purify
\* succeeds, provided purification leaves the self-reference itself
\* unchanged; and an expression that is already pure is returned unchanged.
C4_PurifyIdempotent ==
    /\ (Purified /\ SelfFunctionIsPure) => purify(ret, arg.self_function) = ret
    /\ (Returned("purify") /\ IsPure(arg.e)) => ret = arg.e

C4_Witness ==
    /\ Purified
    /\ SelfFunctionIsPure
    /\ arg.e[1] = "FuncApp" /\ arg.e[2] = "f" /\ Len(arg.e[3]) = 2
    /\ arg.e[3][1] = Local(LocalVar(RESULT_LOCAL, TypedRef("i32")), 1)
    /\ arg.e[3][2][1] = "Field"
    /\ ret # arg.e
    /\ ret[3][1] = arg.self_function

\* C9: a resource permission and a field permission purify to the constant
\* true, whatever the name, the argument or receiver and the amount, also
\* when purifying the receiver alone would abort.
C9_PermissionsBecomeTrue ==
    (/\ Returned("purify")
     /\ arg.e[1] \in {"PredicateAccessPredicate", "FieldAccessPredicate"})
    => ret = Const(<<"Bool", TRUE>>, DefaultPos)

C9_Witness ==
    /\ Returned("purify")
    /\ arg.e[1] = "FieldAccessPredicate"
    /\ IsPanic(purify(arg.e[2], arg.self_function))
    /\ ret = Const(<<"Bool", TRUE>>, DefaultPos)

\* the call purified snap$(e) for one argument e
SnapOfOne ==
    /\ Returned("purify")
    /\ arg.e[1] = "FuncApp" /\ arg.e[2] = "snap$" /\ Len(arg.e[3]) = 1

\* C10: purifying the application of snap$ to the single argument e gives
\* exactly purify(e): no application node and no fuel argument.
C10_SnapshotWrapErased ==
    SnapOfOne => ret = purify(arg.e[3][1], arg.self_function)

C10_Witness ==
    /\ SnapOfOne
    /\ arg.e[3][1][1] = "Local"
    /\ arg.e[3][1][2][1] = "x"
    /\ ret = Local(LocalVar("x", Domain("Snap$m_S")), 1)

(***************************************************************************)
(* Function applications.                                                  *)
(***************************************************************************)
\* purify applied to each argument of the application, in order
PurifiedArgs == [k \in 1..Len(arg.e[3]) |-> purify(arg.e[3][k], arg.self_function)]

\* the call purified an application whose arguments all purify
AppPurified ==
    /\ Purified
    /\ arg.e[1] = "FuncApp"
    /\ \A k \in 1..Len(arg.e[3]) : ~IsPanic(PurifiedArgs[k])

\* C11: the application of a function other than the unreachable marker and
\* snap$ to n arguments purifies to the domain-function application of the
\* axiomatized counterpart, at the position of the original, whose n + 1
\* arguments are the purified arguments in order and then the fuel; the
\* unreachable marker stays an ordinary application with its name, formal
\* arguments and return type and exactly the n purified arguments.
C11_FuncAppBecomesAxiomatized ==
    AppPurified =>
        LET e == arg.e IN
        CASE e[2] = UNREACHABLE_INT ->
                ret = FuncApp(e[2], PurifiedArgs, e[4], e[5], e[6])
          [] e[2] = SNAP_FUNCTION -> TRUE
          [] OTHER ->
                /\ ret[1] = "DomainFuncApp"
                /\ ret[2] = encode_axiomatized_function(e[2], e[4], e[5])
                /\ Len(ret[3]) = Len(e[3]) + 1
                /\ SubSeq(ret[3], 1, Len(e[3])) = PurifiedArgs
                /\ ret[3][Len(e[3]) + 1] = Local(encode_nat_argument, DefaultPos)
                /\ ret[4] = e[6]

\* f(x, x.val_int) became axiom$f(x, x, count) at position 3
C11_Witness ==
    /\ AppPurified
    /\ arg.e[2] = "f" /\ Len(arg.e[3]) = 2
    /\ arg.e[3][1] = Local(LocalVar("x", TypedRef("m_S")), 1)
    /\ arg.e[3][2][1] = "Field"
    /\ ret[1] = "DomainFuncApp" /\ ret[2].name = "axiom$f"
    /\ ret[3] = <<Local(LocalVar("x", Domain("Snap$m_S")), 1),
                  Local(LocalVar("x", Domain("Snap$m_S")), 1),
                  Local(encode_nat_argument, DefaultPos)>>
    /\ ret[4] = 3

(***************************************************************************)
(* Panic causes and root spans.                                            *)
(***************************************************************************)
\* the names of the three nearest ancestors of the call-site, nearest first;
\* an ancestor without a macro definition has no name
NearestNames ==
    LET bt == arg.macro_backtrace
        near == SubSeq(bt, 1, IF Len(bt) < 3 THEN Len(bt) ELSE 3)
        named == SelectSeq(near, LAMBDA f : f.macro_def_id # None)
    IN [k \in 1..Len(named) |-> named[k].macro_def_id[2]]

\* the k-th of these names, "" when there are fewer
NameAt(k) == IF k <= Len(NearestNames) THEN NearestNames[k] ELSE ""

\* C12: the cause of a panic is read off the names of at most the three
\* nearest macro ancestors, in order: panic, assert, debug_assert is
\* DebugAssert; panic, assert and then anything else or nothing is Assert;
\* panic, unreachable is Unreachable; panic, unimplemented is Unimplemented;
\* panic and then anything else or nothing is Panic; every other ancestry,
\* the empty one too, is Generic.  No ancestor after the third is looked at.
C12_PanicCauseFromThreeNearest ==
    Returned("encode_panic_cause") =>
        ret = PanicCause(
                  IF NameAt(1) # "std::panic" THEN "Generic"
                  ELSE CASE NameAt(2) = "std::assert" ->
                                IF NameAt(3) = "std::debug_assert"
                                THEN "DebugAssert" ELSE "Assert"
                         [] NameAt(2) = "std::unreachable" -> "Unreachable"
                         [] NameAt(2) = "std::unimplemented" -> "Unimplemented"
                         [] OTHER -> "Panic")

\* panic, assert, debug_assert and a fourth ancestor: DebugAssert
C12_Witness ==
    /\ Returned("encode_panic_cause")
    /\ Len(arg.macro_backtrace) = 4
    /\ NearestNames = <<"std::panic", "std::assert", "std::debug_assert">>
    /\ arg.macro_backtrace[4].macro_def_id = Some("std::unreachable")
    /\ ret = PanicCause("DebugAssert")

\* the outermost call site: parent links followed until there is none
RECURSIVE RootOf(_)
RootOf(span) ==
    IF span_parent(span) = None THEN span ELSE RootOf(span_parent(span)[2])

\* the number of ancestors of a span
AncestryLen(span) == span[2]

\* C13: get_root_span ends for every span of finite ancestry, having followed
\* the parent links from the span to the span without a parent: the body of
\* its loop runs once per ancestor at most, and the span returned is the
\* outermost one.
C13_RootSpanTerminates ==
    call = "get_root_span" =>
        /\ iterations <= AncestryLen(arg.span)
        /\ pc = "done" => ret = RootOf(arg.span)

(***************************************************************************)
(* Field and Downcast steps.                                               *)
(***************************************************************************)
\* the base the step `arg.index` of encode_projection is applied to
StepBase ==
    IF arg.encoded_base_place # None THEN Ok(arg.encoded_base_place[2])
    ELSE IF arg.index = 1
    THEN LET var == encode_local(arg.place.local) IN
         IF IsErr(var) THEN Panic("unwrap")
         ELSE Ok(Place(Local(var[2], DefaultPos), get_local_ty(arg.place.local), None))
    ELSE encode_projection(arg.index - 1, arg.place, None)

\* encode_projection returned from a step that it applied to a resolved base
StepTaken ==
    /\ Returned("encode_projection")
    /\ arg.index \in 1..Len(arg.place.projection)
    /\ IsOk(StepBase)

StepElem == arg.place.projection[arg.index]

FieldOnAdt ==
    /\ StepTaken
    /\ StepElem[1] = "Field"
    /\ Kind(StepBase[2][3]) = "Adt" /\ ~is_box(StepBase[2][3])

\* C14: a Field(i) step on a struct or enum that is not a box takes the
\* variant the base tracks, or variant 0 when none is tracked and the type has
\* one variant, and is an assertion fault when none is tracked and the type
\* has not exactly one variant.  The result is base.variant(v).field(f) for a
\* type of more than one variant and base.field(f) for a type of one, with f
\* and the type returned those of field i of that variant, and no variant.
C14_FieldOfActiveVariant ==
    FieldOnAdt =>
        LET b == StepBase[2]
            variants == AdtVariants(b[3][2])
            n == Len(variants)
            i == StepElem[2]
        IN IF b[4] = None /\ n # 1 THEN ret = Panic("assert")
           ELSE LET v == IF b[4] = None THEN 0 ELSE b[4][2] IN
                (v < n /\ i < Len(variants[v + 1].fields)) =>
                    LET f == variants[v + 1].fields[i + 1]
                        receiver == IF n > 1
                                    THEN expr_variant(b[2], variants[v + 1].ident)
                                    ELSE b[2]
                    IN ret = Ok(Place(expr_field(receiver,
                                                 encode_struct_field(f.ident, f.ty)),
                                      f.ty, None))

\* field 1 of variant B of the enum E, after Downcast(1)
C14_Witness ==
    /\ FieldOnAdt
    /\ arg.encoded_base_place = None
    /\ arg.place.projection = <<ElemDowncast(1), ElemField(1)>> /\ arg.index = 2
    /\ StepBase[2][3] = TyE
    /\ IsOk(ret)
    /\ ret[2][2][1] = "Field" /\ ret[2][2][2][1] = "Variant"
    /\ ret[2][3] = TyBox(TyI32)
    /\ ret[2][4] = None

\* C15: a Downcast(v) step returns the expression and the type of its base
\* and v as the variant; the variant encode_projection returns is Some(v)
\* exactly when its last step is Downcast(v), and None after a Field or a
\* Deref step.
C15_VariantOnlyAfterDowncast ==
    /\ (StepTaken /\ StepElem[1] = "Downcast")
           => ret = Ok(Place(StepBase[2][2], StepBase[2][3], Some(StepElem[2])))
    /\ (StepTaken /\ IsOk(ret))
           => ret[2][4] = (IF StepElem[1] = "Downcast" THEN Some(StepElem[2])
                           ELSE None)
    /\ (Returned("encode_place") /\ IsOk(ret) /\ arg.place.projection # <<>>)
           => LET last == arg.place.projection[Len(arg.place.projection)] IN
              ret[2][4] = (IF last[1] = "Downcast" THEN Some(last[2]) ELSE None)

\* Downcast(1) of the enum E and then Field(0): the variant is gone
C15_Witness ==
    /\ Returned("encode_place") /\ IsOk(ret)
    /\ arg.place.projection = <<ElemDowncast(1), ElemField(0)>>
    /\ get_local_ty(arg.place.local) = TyE
    /\ encode_projection(1, arg.place, None)[2][4] = Some(1)
    /\ ret[2][4] = None

(***************************************************************************)
(* Locals and field accesses.                                              *)
(***************************************************************************)
\* what the claim gives for a reference to a local
LocalPurified(e) ==
    IF e[2][1] = "__result" THEN arg.self_function
    ELSE Local(LocalVar(e[2][1], translate_type(e[2][2])), e[3])

\* C16: the local __result purifies to the self-reference exactly as it was
\* supplied, whatever its type and position, and the self-reference is not
\* folded again; any other local keeps its name and position and gets the
\* purified translation of its type.
C16_LocalsAndResult ==
    /\ (Returned("purify") /\ arg.e[1] = "Local") => ret = LocalPurified(arg.e)
    /\ (Returned("purify") /\ arg.e[1] = "UnaryOp" /\ arg.e[3][1] = "Local")
           => ret = UnaryOp(arg.e[2], LocalPurified(arg.e[3]), arg.e[4])

\* __result of type Bool at position 2 became the heap-level application
\* f(a1), which a second fold would have rewritten
C16_Witness ==
    /\ Returned("purify")
    /\ arg.e = Local(LocalVar("__result", VBool), 2)
    /\ arg.self_function[1] = "FuncApp"
    /\ purify(arg.self_function, arg.self_function) # arg.self_function
    /\ ret = arg.self_function

\* the call purified a field access
FieldAccess == Returned("purify") /\ arg.e[1] = "Field"

ValueCarriers == {"val_bool", "val_int", "val_ref"}

\* C17: r.f for a receiver r of a typed reference type and f one of val_bool,
\* val_int, val_ref purifies to exactly purify(r); a field access on a
\* receiver whose type is not a typed reference aborts.
C17_ValueCarriersUnwrap ==
    FieldAccess =>
        LET r == arg.e[2]
            t == get_type(r)
        IN /\ (t[1] = "TypedRef" /\ arg.e[3][1] \in ValueCarriers)
                  => ret = purify(r, arg.self_function)
           /\ t[1] # "TypedRef" => IsPanic(ret)

\* x.val_ref became x
C17_Witness ==
    /\ FieldAccess
    /\ arg.e[2] = Local(LocalVar("x", TypedRef("m_S")), 1)
    /\ arg.e[3][1] = "val_ref"
    /\ ret = Local(LocalVar("x", Domain("Snap$m_S")), 1)

\* the name of the variant a variant-tag receiver selects
VariantSuffix(r) ==
    IF r[1] = "Variant" THEN SubSeq(r[3][1], 6, Len(r[3][1])) ELSE ""

\* the snapshot domain of a receiver of type T: Snap$T, less the suffix of the
\* variant
SnapDomain(r) ==
    LET d == "Snap$" \o get_type(r)[2] IN
    SubSeq(d, 1, Len(d) - Len(VariantSuffix(r)))

\* the call purified r.f for a receiver of a typed reference type
FieldProjected ==
    /\ FieldAccess /\ ~IsPanic(ret)
    /\ get_type(arg.e[2])[1] = "TypedRef"
    /\ arg.e[3][1] \notin ValueCarriers

\* r.f for f other than discriminant: the domain function of the field, of
\* the domain of r, under the name of f less its first two characters,
\* applied to purify(r)
OtherFieldProjected ==
    (FieldProjected /\ arg.e[3][1] # "discriminant") =>
        LET r == arg.e[2]
            f == arg.e[3]
            df == encode_field_domain_func(
                      translate_type(f[2]), SubSeq(f[1], 3, Len(f[1])),
                      SnapDomain(r),
                      IF r[1] = "Variant" THEN Some(VariantSuffix(r)) ELSE None)
        IN /\ ret = DomainFuncApp(df, <<purify(r, arg.self_function)>>, arg.e[4])
           /\ ret[2].domain_name = SnapDomain(r)

\* r.discriminant: an application of variant$ of the domain of r, to Int
DiscriminantSelected ==
    /\ ret[1] = "DomainFuncApp"
    /\ ret[2].name = "variant$"
    /\ ret[2].domain_name = SnapDomain(arg.e[2])
    /\ ret[2].return_type = VInt

\* C18 as stated: r.discriminant purifies to an application of the nullary
\* domain function variant$ of the snapshot domain of r, returning Int;
\* every other field that is not a value carrier becomes the domain function
\* of the field applied to the one argument purify(r).
C18_DiscriminantNullaryAsClaimed ==
    /\ (FieldProjected /\ arg.e[3][1] = "discriminant")
           => (DiscriminantSelected /\ ret[2].formal_args = <<>> /\ ret[3] = <<>>)
    /\ OtherFieldProjected

\* C18, amended: r.discriminant purifies to an application of the unary
\* domain function variant$ (one formal argument `self` of the snapshot
\* domain of r, return type Int) to the one argument purify(r), at the
\* position of the access; every other field that is not a value carrier
\* becomes the domain function of the field applied to purify(r).
C18_DiscriminantOfReceiver ==
    /\ (FieldProjected /\ arg.e[3][1] = "discriminant")
           => /\ DiscriminantSelected
              /\ ret[2].formal_args = <<LocalVar("self", Domain(SnapDomain(arg.e[2])))>>
              /\ ret[3] = <<purify(arg.e[2], arg.self_function)>>
              /\ ret[4] = arg.e[4]
    /\ OtherFieldProjected

\* the discriminant of e seen as its variant A: variant$ of Snap$m_E, on e
C18_Witness ==
    /\ FieldProjected /\ arg.e[3][1] = "discriminant"
    /\ arg.e[2][1] = "Variant" /\ get_type(arg.e[2]) = TypedRef("m_EA")
    /\ ret[2].domain_name = "Snap$m_E"
    /\ ret[3] = <<Local(LocalVar("e", Domain("Snap$m_E")), 1)>>

(***************************************************************************)
(* Heap-freedom.                                                           *)
(***************************************************************************)
\* no field access, variant tag, unfolding or permission, and no function
\* application but the unreachable marker, at any depth
RECURSIVE HeapFree(_)
HeapFree(e) ==
    CASE e[1] \in {"Local", "Const"} -> TRUE
      [] e[1] = "AddrOf" -> HeapFree(e[2])
      [] e[1] = "BinOp" -> HeapFree(e[3]) /\ HeapFree(e[4])
      [] e[1] = "UnaryOp" -> HeapFree(e[3])
      [] e[1] = "DomainFuncApp" -> \A k \in 1..Len(e[3]) : HeapFree(e[3][k])
      [] e[1] = "FuncApp" ->
            /\ e[2] = "builtin$unreach_int"
            /\ \A k \in 1..Len(e[3]) : HeapFree(e[3][k])
      [] OTHER -> FALSE

\* C19: when the self-reference is heap-free, the result of a purification
\* that succeeds is heap-free.
C19_ResultIsHeapFree ==
    (Purified /\ HeapFree(arg.self_function)) => HeapFree(ret)

\* an unfolding over the variant A of e, purified to the snapshot of e
C19_Witness ==
    /\ Purified /\ HeapFree(arg.self_function)
    /\ arg.e[1] = "Unfolding" /\ arg.e[4][1] = "Variant"
    /\ ~HeapFree(arg.e)
    /\ ret = Local(LocalVar("e", Domain("Snap$m_E")), 1)
    /\ HeapFree(ret)

====
